---------------------------- MODULE Spec2Model ----------------------------
(***************************************************************************)
(* Model of the weather claim validation engine of AgriResQ.               *)
(*                                                                         *)
(* The engine is WeatherClaimValidator.analyze_claim of                    *)
(* scripts/machine-learning-model/src/a.py.  That class calls              *)
(* self.fetch_historical_weather and                                       *)
(* self._count_consecutive_low_rainfall_days, which are defined in         *)
(* scripts/machine-learning-model/src/WeatherClaimValidator.py; the model  *)
(* is the validator with those two methods taken from that file.           *)
(*                                                                         *)
(* Representation.                                                         *)
(*  - A claim is a record of the six keys the engine reads.  A string      *)
(*    field holds a string, Absent (the key is not in the dict) or Null    *)
(*    (the key holds None).  Date and Days hold a tagged value             *)
(*    [t, n] with t in "absent", "null", "int", "bad" ("bad" is a date     *)
(*    string that strptime rejects).                                       *)
(*  - A calendar date is an integer day number.                            *)
(*  - Rainfall is an integer number of hundredths of a millimetre.         *)
(*    Derived rainfall metrics are carried in fixed point, FP units per    *)
(*    hundredth of a millimetre, so that the division by 24 and the        *)
(*    interpolated 95th percentile are exact.                              *)
(*  - An uncaught Python exception ends the evaluation in pc = "crashed".  *)
(***************************************************************************)
EXTENDS Integers, Sequences, FiniteSets, TLC

VARIABLES claim, down, pc, days_to_analyze, calls, historical_data,
          analysis_result, result, arg, ret, validator, weather

vars == <<claim, down, pc, days_to_analyze, calls, historical_data,
          analysis_result, result, arg, ret, validator, weather>>

-----------------------------------------------------------------------------
(* Bounds of the model *)

\* largest value of the Days field of a claim
MaxDays == 8

\* day number of the claim's Date when it parses
Anchor == 100

\* longest daily rainfall series given to the dry-day counter
MaxLen == 6

\* longest window given to the drought analyzer
MaxWindow == 14

\* largest number of words of a claim text
MaxWords == 3

-----------------------------------------------------------------------------
(* Program constants *)

MIN_DROUGHT_DAYS == 7
MONTHLY_DAYS == 30

\* RAINFALL_THRESHOLD = 0.1 mm, in hundredths of a millimetre
RAINFALL_THRESHOLD == 10

\* threshold=0.1, the default of _count_consecutive_low_rainfall_days
DEFAULT_DRY_THRESHOLD == 10

\* fixed-point denominator: a multiple of 24 (intensity) and 20 (quantile)
FP == 24 * 20

\* x millimetres in fixed point
Mm(x) == x * 100 * FP

-----------------------------------------------------------------------------
(* Values of claim fields *)

Absent == "<absent>"
Null == "<null>"

AbsentV == [t |-> "absent", n |-> 0]
NullV == [t |-> "null", n |-> 0]
BadDateV == [t |-> "bad", n |-> 0]
IntV(n) == [t |-> "int", n |-> n]

\* an uncaught exception inside a function that returns a number
RaiseV == [t |-> "raise", n |-> 0]

Raise == "<raise>"

LocationVals == {Absent, Null, "Lagos"}
DateVals == {AbsentV, NullV, BadDateV, IntV(Anchor)}
EventTypeVals == {Absent, Null, "rain", "flood", "drought", "Drought", "storm"}
SeverityVals == {Absent, Null, "Mild", "Moderate", "Severe"}
DaysVals == {AbsentV, NullV} \cup
            {IntV(n) : n \in {0, MIN_DROUGHT_DAYS - 1, MIN_DROUGHT_DAYS, MaxDays}}
DescriptorVals == {Absent, Null, "this month", "This Month", "yesterday", "today"}

Claims == [Location : LocationVals, Date : DateVals, EventType : EventTypeVals,
           Severity : SeverityVals, Days : DaysVals, Descriptor : DescriptorVals]

\* str.lower() on the strings of the model
Lower(s) ==
    CASE s = "Drought" -> "drought"
      [] s = "Yesterday" -> "yesterday"
      [] s = "This Month" -> "this month"
      [] s = "Mild" -> "mild"
      [] s = "Moderate" -> "moderate"
      [] s = "Severe" -> "severe"
      [] OTHER -> s

\* dict.get(key, default) for a string field
Get(v, default) == IF v = Absent THEN default ELSE v

\* dict.get(key, default) for a numeric field
GetV(v, default) == IF v.t = "absent" THEN IntV(default) ELSE v

Max(a, b) == IF a >= b THEN a ELSE b

-----------------------------------------------------------------------------
(* Input validation and window-size policy (a.py) *)

\* all(field in claim_details for field in required_fields)
HasRequiredFields(c) ==
    /\ c.Location # Absent
    /\ c.Date.t # "absent"
    /\ c.EventType # Absent
    /\ c.Severity # Absent

\* event_type == 'drought' and claim_details.get('Days', 0) < MIN_DROUGHT_DAYS,
\* "raise" when the comparison of None with an integer is a TypeError
DroughtTooShortMutDefault(event_type, days) ==
    IF event_type # "drought" THEN "no"
    ELSE IF GetV(days, MIN_DROUGHT_DAYS).t = "null" THEN "raise"
    ELSE IF GetV(days, MIN_DROUGHT_DAYS).n < MIN_DROUGHT_DAYS THEN "yes" ELSE "no"

DroughtTooShort(event_type, days) ==
    IF event_type # "drought" THEN "no"
    ELSE IF GetV(days, 0).t = "null" THEN "raise"
    ELSE IF GetV(days, 0).n < MIN_DROUGHT_DAYS THEN "yes" ELSE "no"

\* _validate_claim_inputs: "ok", "missing", "drought_min", or "raise" when
\* None.lower() is an AttributeError or None < 7 a TypeError
ValidateClaimInputsMutRequired(c) ==
    IF ~(c.Location # Absent /\ c.Date.t # "absent" /\ c.EventType # Absent)
    THEN "missing"
    ELSE IF Get(c.EventType, "") = Null THEN "raise"
    ELSE LET short == DroughtTooShort(Lower(Get(c.EventType, "")), c.Days)
         IN  IF short = "raise" THEN "raise"
             ELSE IF short = "yes" THEN "drought_min"
             ELSE "ok"

ValidateClaimInputs(c) ==
    IF ~HasRequiredFields(c) THEN "missing"
    ELSE IF Get(c.EventType, "") = Null THEN "raise"
    ELSE LET short == DroughtTooShort(Lower(Get(c.EventType, "")), c.Days)
         IN  IF short = "raise" THEN "raise"
             ELSE IF short = "yes" THEN "drought_min"
             ELSE "ok"

MissingMessage == "Missing required claim details"
DroughtMessage == "Drought claims require minimum 7 days of data"
NoMessage == "<none>"

\* _determine_analysis_period on (Event Type, Date Descriptor, Days);
\* RaiseV when None.lower() or max(None, 7) raises
DetermineAnalysisPeriodMutYesterday(et, dd, days) ==
    IF Get(et, "") = Null \/ Get(dd, "") = Null THEN RaiseV
    ELSE LET event_type == Lower(Get(et, ""))
             date_descriptor == Lower(Get(dd, ""))
         IN  IF event_type = "drought"
             THEN IF date_descriptor = "this month" THEN IntV(MONTHLY_DAYS)
                  ELSE IF GetV(days, MIN_DROUGHT_DAYS).t = "null" THEN RaiseV
                  ELSE IntV(Max(GetV(days, MIN_DROUGHT_DAYS).n, MIN_DROUGHT_DAYS))
             ELSE IF date_descriptor = "this month" THEN IntV(MONTHLY_DAYS)
             ELSE IntV(1)

DetermineAnalysisPeriod(et, dd, days) ==
    IF Get(et, "") = Null \/ Get(dd, "") = Null THEN RaiseV
    ELSE LET event_type == Lower(Get(et, ""))
             date_descriptor == Lower(Get(dd, ""))
         IN  IF event_type = "drought"
             THEN IF date_descriptor = "this month" THEN IntV(MONTHLY_DAYS)
                  ELSE IF GetV(days, MIN_DROUGHT_DAYS).t = "null" THEN RaiseV
                  ELSE IntV(Max(GetV(days, MIN_DROUGHT_DAYS).n, MIN_DROUGHT_DAYS))
             ELSE IF date_descriptor = "this month" THEN IntV(MONTHLY_DAYS)
             ELSE IF date_descriptor = "yesterday" THEN IntV(2)
             ELSE IntV(1)

-----------------------------------------------------------------------------
(* Gateway and window builder *)

\* rainfall values the provider may report, in hundredths of a millimetre
RainVals == {0, 5, 400, 30000}

\* dates on which the provider may be down
OutageDates == {Anchor - k : k \in {0, 1, MIN_DROUGHT_DAYS - 1, MaxDays - 1, MONTHLY_DAYS - 1}}

\* get_weather_data: None when the request fails, else one observation
GetWeatherData(location, date, rainfall, outage) ==
    IF date \in outage THEN [ok |-> FALSE, date |-> date, rainfall |-> 0]
    ELSE [ok |-> TRUE, date |-> date, rainfall |-> rainfall]

UnboundV == [t |-> "unbound", n |-> 0]

\* the for loop of fetch_historical_weather: its body is the assignment of
\* check_date alone; the value of check_date once the loop has ended
RECURSIVE LoopCheckDate(_, _, _, _)
LoopCheckDate(base_date, day, days_before, check_date) ==
    IF day >= days_before THEN check_date
    ELSE LoopCheckDate(base_date, day + 1, days_before, IntV(base_date - day))

\* the value of check_date at the call of get_weather_data that follows the loop
CheckDateMutOffByOne(base_date, days_before) ==
    LoopCheckDate(base_date, 0, days_before + 1, UnboundV)

CheckDate(base_date, days_before) ==
    LoopCheckDate(base_date, 0, days_before, UnboundV)

-----------------------------------------------------------------------------
(* Statistical analyzer *)

RECURSIVE SumRain(_)
SumRain(w) == IF w = <<>> THEN 0 ELSE w[1].rainfall + SumRain(Tail(w))

WindowDates(w) == {w[i].date : i \in DOMAIN w}

\* data.groupby('date')['rainfall'].sum()
DailyTotals(w) ==
    [d \in WindowDates(w) |->
        SumRain(SelectSeq(w, LAMBDA o : o.date = d))]

MaxOf(S) == CHOOSE x \in S : \A y \in S : y <= x

\* the k-th smallest (k from 0) of the values of the function tot
OrderStat(tot, k) ==
    CHOOSE v \in {tot[d] : d \in DOMAIN tot} :
        /\ Cardinality({d \in DOMAIN tot : tot[d] < v}) <= k
        /\ k < Cardinality({d \in DOMAIN tot : tot[d] <= v})

\* daily_totals.quantile(0.95), linear interpolation, in fixed point
Quantile95(tot) ==
    LET n == Cardinality(DOMAIN tot)
        pos20 == 19 * (n - 1)
        lo == pos20 \div 20
        hi == IF lo + 1 <= n - 1 THEN lo + 1 ELSE lo
        x_lo == OrderStat(tot, lo)
        x_hi == OrderStat(tot, hi)
    IN  (FP \div 20) * (20 * x_lo + (pos20 % 20) * (x_hi - x_lo))

\* the dry days of the whole window, without grouping them into runs
CountConsecutiveLowRainfallDaysMutNoGroup(w, threshold) ==
    Cardinality({i \in DOMAIN w : w[i].rainfall < threshold})

\* the sum of the first group instead of the largest sum
CountConsecutiveLowRainfallDaysMutFirstRun(w, threshold) ==
    LET dry == [i \in DOMAIN w |-> w[i].rainfall < threshold]
        change == [i \in DOMAIN w |-> IF i = 1 THEN TRUE ELSE dry[i] # dry[i - 1]]
        grp == [i \in DOMAIN w |-> Cardinality({j \in 1 .. i : change[j]})]
    IN  Cardinality({i \in DOMAIN w : grp[i] = 1 /\ dry[i]})

\* _count_consecutive_low_rainfall_days: the rows are marked dry when below
\* the threshold, grouped by the running count of changes of that mark, the
\* marks summed per group, and the largest sum returned
CountConsecutiveLowRainfallDays(w, threshold) ==
    LET dry == [i \in DOMAIN w |-> w[i].rainfall < threshold]
        change == [i \in DOMAIN w |-> IF i = 1 THEN TRUE ELSE dry[i] # dry[i - 1]]
        grp == [i \in DOMAIN w |-> Cardinality({j \in 1 .. i : change[j]})]
        sums == {Cardinality({i \in DOMAIN w : grp[i] = g /\ dry[i]}) :
                    g \in {grp[i] : i \in DOMAIN w}}
    IN  MaxOf(sums)

NoAnalysis ==
    [event_specific |-> "none", peak_daily_rainfall |-> 0, rainfall_intensity |-> 0,
     extreme_rainfall_threshold |-> 0, dry_spell_length |-> 0, total_rainfall |-> 0,
     days_below_threshold |-> 0]

\* _analyze_rainfall_event
AnalyzeRainfallEvent(w) ==
    LET daily_totals == DailyTotals(w)
        peak == MaxOf({daily_totals[d] : d \in DOMAIN daily_totals})
    IN  [NoAnalysis EXCEPT !.event_specific = "rain",
                           !.peak_daily_rainfall = FP * peak,
                           !.rainfall_intensity = (FP * peak) \div 24,
                           !.extreme_rainfall_threshold = Quantile95(daily_totals)]

\* the days at or above the threshold counted instead of the days below it
AnalyzeDroughtEventMutAbove(w) ==
    [NoAnalysis EXCEPT !.event_specific = "drought",
                       !.dry_spell_length =
                           CountConsecutiveLowRainfallDays(w, DEFAULT_DRY_THRESHOLD),
                       !.total_rainfall = FP * SumRain(w),
                       !.days_below_threshold =
                           Cardinality({i \in DOMAIN w : w[i].rainfall >= RAINFALL_THRESHOLD})]

\* _analyze_drought_event
AnalyzeDroughtEvent(w) ==
    [NoAnalysis EXCEPT !.event_specific = "drought",
                       !.dry_spell_length =
                           CountConsecutiveLowRainfallDays(w, DEFAULT_DRY_THRESHOLD),
                       !.total_rainfall = FP * SumRain(w),
                       !.days_below_threshold =
                           Cardinality({i \in DOMAIN w : w[i].rainfall < RAINFALL_THRESHOLD})]

\* historical_data.empty
IsEmptyMutNever(w) == FALSE

IsEmpty(w) == Len(w) = 0

\* _analyze_historical_context: the event type is compared as given
AnalyzeHistoricalContext(w, event_type) ==
    IF IsEmpty(w) THEN NoAnalysis
    ELSE IF event_type \in {"rain", "flood"} THEN AnalyzeRainfallEvent(w)
    ELSE IF event_type = "drought" THEN AnalyzeDroughtEvent(w)
    ELSE NoAnalysis

-----------------------------------------------------------------------------
(* Validity classifier.  Rainfall quantities are in fixed point; the         *)
(* products with 1.5 and 0.75 are compared exactly.                          *)

ExtremeRainfall == "Validated - Extreme Rainfall Event"
SignificantRainfall == "Validated - Significant Rainfall"
HighIntensityRainfall == "Validated - High Intensity Rainfall"
ModerateRainfall == "Partially Validated - Moderate Rainfall"
RainfallBelow == "Invalid - Rainfall Below Expected Threshold"
SevereDrought == "Validated - Severe Drought Conditions"
ModerateDrought == "Validated - Moderate Drought Conditions"
MildDrought == "Partially Validated - Mild Drought Conditions"
InsufficientDrought == "Invalid - Insufficient Drought Indicators"
InsufficientData == "Unable to Validate - Insufficient Data"
UnknownEventType == "Unable to Validate - Unknown Event Type"
InvalidClaim == "Invalid Claim"
UnableToValidate == "Unable to Validate"
NoWeatherData == "No weather data available"

\* _validate_rainfall_claim; Raise when severity.lower() is evaluated on None
ValidateRainfallClaimMutOrder(peak_rainfall, intensity, threshold, severity) ==
    IF peak_rainfall > threshold /\ severity = Null THEN Raise
    ELSE IF peak_rainfall > threshold /\ Lower(severity) \in {"moderate", "severe"}
    THEN SignificantRainfall
    ELSE IF 2 * peak_rainfall > 3 * threshold THEN ExtremeRainfall
    ELSE IF intensity > Mm(10) /\ severity = Null THEN Raise
    ELSE IF intensity > Mm(10) /\ Lower(severity) = "severe" THEN HighIntensityRainfall
    ELSE IF 4 * peak_rainfall > 3 * threshold THEN ModerateRainfall
    ELSE RainfallBelow

\* the peak compared with >= where the code compares with >
ValidateRainfallClaimMutAtLeast(peak_rainfall, intensity, threshold, severity) ==
    IF 2 * peak_rainfall >= 3 * threshold THEN ExtremeRainfall
    ELSE IF peak_rainfall >= threshold /\ severity = Null THEN Raise
    ELSE IF peak_rainfall >= threshold /\ Lower(severity) \in {"moderate", "severe"}
    THEN SignificantRainfall
    ELSE IF intensity > Mm(10) /\ severity = Null THEN Raise
    ELSE IF intensity > Mm(10) /\ Lower(severity) = "severe" THEN HighIntensityRainfall
    ELSE IF 4 * peak_rainfall >= 3 * threshold THEN ModerateRainfall
    ELSE RainfallBelow

ValidateRainfallClaim(peak_rainfall, intensity, threshold, severity) ==
    IF 2 * peak_rainfall > 3 * threshold THEN ExtremeRainfall
    ELSE IF peak_rainfall > threshold /\ severity = Null THEN Raise
    ELSE IF peak_rainfall > threshold /\ Lower(severity) \in {"moderate", "severe"}
    THEN SignificantRainfall
    ELSE IF intensity > Mm(10) /\ severity = Null THEN Raise
    ELSE IF intensity > Mm(10) /\ Lower(severity) = "severe" THEN HighIntensityRainfall
    ELSE IF 4 * peak_rainfall > 3 * threshold THEN ModerateRainfall
    ELSE RainfallBelow

\* _validate_drought_claim; Raise when severity.lower() is evaluated on None
ValidateDroughtClaimMutStrict(dry_spell, total_rainfall, days_below_threshold, severity) ==
    IF dry_spell >= 14 /\ severity = Null THEN Raise
    ELSE IF dry_spell >= 14 /\ Lower(severity) = "severe" THEN SevereDrought
    ELSE IF dry_spell > 7 /\ days_below_threshold >= 5 THEN ModerateDrought
    ELSE IF total_rainfall < Mm(5) /\ dry_spell >= 5 THEN MildDrought
    ELSE InsufficientDrought

ValidateDroughtClaim(dry_spell, total_rainfall, days_below_threshold, severity) ==
    IF dry_spell >= 14 /\ severity = Null THEN Raise
    ELSE IF dry_spell >= 14 /\ Lower(severity) = "severe" THEN SevereDrought
    ELSE IF dry_spell >= 7 /\ days_below_threshold >= 5 THEN ModerateDrought
    ELSE IF total_rainfall < Mm(5) /\ dry_spell >= 5 THEN MildDrought
    ELSE InsufficientDrought

\* _determine_claim_validity: the event type is compared as given
DetermineClaimValidity(analysis, event_type, severity) ==
    IF analysis.event_specific = "none" THEN InsufficientData
    ELSE IF event_type \in {"rain", "flood"}
    THEN ValidateRainfallClaim(analysis.peak_daily_rainfall, analysis.rainfall_intensity,
                               analysis.extreme_rainfall_threshold, severity)
    ELSE IF event_type = "drought"
    THEN ValidateDroughtClaim(analysis.dry_spell_length, analysis.total_rainfall,
                              analysis.days_below_threshold, severity)
    ELSE UnknownEventType

-----------------------------------------------------------------------------
(* Unit-suffixed text: the API view formats numbers as strings and the       *)
(* gateway parses them back.  A Python str is a sequence of characters, a    *)
(* character is a one-character string, and Degree stands for the single     *)
(* character U+00B0.  A parsed number is an integer number of hundredths;    *)
(* the texts of the model carry at most two fractional digits.               *)

Degree == "deg"
DigitChars == <<"0", "1", "2", "3", "4", "5", "6", "7", "8", "9">>
IsDigit(c) == \E i \in DOMAIN DigitChars : DigitChars[i] = c
DigitVal(c) == (CHOOSE i \in DOMAIN DigitChars : DigitChars[i] = c) - 1

\* a value of the JSON payload or of the provider's hour record:
\* k is "float" (v hundredths), "int" (v units), "none", "str" (s) or
\* "missing" (the key is not in the dict)
JFloat(v) == [k |-> "float", v |-> v, s |-> <<>>]
JInt(n) == [k |-> "int", v |-> n, s |-> <<>>]
JStr(s) == [k |-> "str", v |-> 0, s |-> s]
JNone == [k |-> "none", v |-> 0, s |-> <<>>]
JMissing == [k |-> "missing", v |-> 0, s |-> <<>>]

RECURSIVE IntDigits(_)
IntDigits(n) ==
    IF n < 10 THEN <<DigitChars[n + 1]>>
    ELSE IntDigits(n \div 10) \o <<DigitChars[(n % 10) + 1]>>

SignChars(v) == IF v < 0 THEN <<"-">> ELSE <<>>
Abs(v) == IF v < 0 THEN -v ELSE v

\* str() of a float: shortest decimal text, at least one fractional digit
FormatFloat(v) ==
    LET f == Abs(v) % 100
        fracs == IF f % 10 = 0 THEN <<DigitChars[(f \div 10) + 1]>>
                 ELSE <<DigitChars[(f \div 10) + 1], DigitChars[(f % 10) + 1]>>
    IN SignChars(v) \o IntDigits(Abs(v) \div 100) \o <<".">> \o fracs

FormatInt(n) == SignChars(n) \o IntDigits(Abs(n))

\* str(x), also the conversion of {x} in an f-string
Str(x) ==
    CASE x.k = "float" -> FormatFloat(x.v)
      [] x.k = "int" -> FormatInt(x.v)
      [] x.k = "none" -> <<"N", "o", "n", "e">>
      [] OTHER -> x.s

\* dict.get(key, default)
DictGet(value, default) == IF value.k = "missing" THEN default ELSE value

\* WeatherView.display_weather, the three fields the gateway reads
DisplayWeather(weather_data) ==
    IF weather_data.error
    THEN [temperature |-> JMissing, rainfall |-> JMissing, humidity |-> JMissing]
    ELSE LET hour_data == weather_data.hour
         IN [temperature |->
                 JStr(Str(DictGet(hour_data.temp_c, JStr(<<>>))) \o <<Degree, "C">>),
             rainfall |->
                 JStr(Str(DictGet(hour_data.precip_mm, JFloat(0))) \o <<" ", "m", "m">>),
             humidity |->
                 JStr(Str(DictGet(hour_data.humidity, JInt(0))) \o <<"%">>)]

\* s.split(unit)[0]
SplitFirstMutWhole(s, unit) == s

SplitFirst(s, unit) ==
    LET at == {i \in 1..(Len(s) - Len(unit) + 1) :
                   SubSeq(s, i, i + Len(unit) - 1) = unit}
    IN IF at = {} THEN s
       ELSE SubSeq(s, 1, (CHOOSE i \in at : \A j \in at : i <= j) - 1)

\* s.strip()
Strip(s) ==
    LET keep == {i \in DOMAIN s : s[i] # " "}
    IN IF keep = {} THEN <<>>
       ELSE SubSeq(s, CHOOSE i \in keep : \A j \in keep : i <= j,
                      CHOOSE i \in keep : \A j \in keep : j <= i)

RECURSIVE DigitsValue(_)
DigitsValue(d) ==
    IF d = <<>> THEN 0
    ELSE DigitsValue(SubSeq(d, 1, Len(d) - 1)) * 10 + DigitVal(d[Len(d)])

FracHundredths(d) ==
    CASE Len(d) = 0 -> 0
      [] Len(d) = 1 -> DigitVal(d[1]) * 10
      [] OTHER -> DigitVal(d[1]) * 10 + DigitVal(d[2])

\* float(text): surrounding blanks, an optional sign, digits with at most
\* one point and at least one digit; anything else is a ValueError
NotANumber == [ok |-> FALSE, v |-> 0]

Float(text) ==
    LET t == Strip(text)
        signed == t # <<>> /\ t[1] \in {"+", "-"}
        body == IF signed THEN Tail(t) ELSE t
        dots == {i \in DOMAIN body : body[i] = "."}
        dot == CHOOSE i \in dots : TRUE
        whole == IF dots = {} THEN body ELSE SubSeq(body, 1, dot - 1)
        frac == IF dots = {} THEN <<>> ELSE SubSeq(body, dot + 1, Len(body))
        magnitude == DigitsValue(whole) * 100 + FracHundredths(frac)
    IN IF /\ Cardinality(dots) <= 1
          /\ \A i \in DOMAIN body : i \in dots \/ IsDigit(body[i])
          /\ Len(whole) + Len(frac) > 0
       THEN [ok |-> TRUE, v |-> IF signed /\ t[1] = "-" THEN -magnitude ELSE magnitude]
       ELSE NotANumber

\* _parse_numeric_value
ParseNumericValue(value_str, unit) ==
    LET parsed == Float(Strip(SplitFirst(Str(value_str), unit)))
    IN IF parsed.ok THEN parsed.v ELSE 0

NoObservation == [ok |-> FALSE, rainfall |-> 0, temperature |-> 0, humidity |-> 0]

\* the observation get_weather_data builds from the decoded payload
ParseWeatherDataMutFailWhole(data) ==
    LET field(value, unit) == Float(Strip(SplitFirst(Str(DictGet(value, JStr(<<"0">>))), unit)))
        r == field(data.rainfall, <<"m", "m">>)
        t == field(data.temperature, <<Degree>>)
        h == field(data.humidity, <<"%">>)
    IN IF r.ok /\ t.ok /\ h.ok
       THEN [ok |-> TRUE, rainfall |-> r.v, temperature |-> t.v, humidity |-> h.v]
       ELSE NoObservation

ParseWeatherData(data) ==
    [ok |-> TRUE,
     rainfall |-> ParseNumericValue(DictGet(data.rainfall, JStr(<<"0">>)), <<"m", "m">>),
     temperature |-> ParseNumericValue(DictGet(data.temperature, JStr(<<"0">>)), <<Degree>>),
     humidity |-> ParseNumericValue(DictGet(data.humidity, JStr(<<"0">>)), <<"%">>)]

-----------------------------------------------------------------------------
(* Extraction layer (claim_processing.py).  A claim text is the sequence of  *)
(* its words; text.lower() lower-cases each word and `phrase in text` is     *)
(* the occurrence of the phrase's words in a row.  The matcher reports its   *)
(* matches in text order.  Date and Location come from the entity            *)
(* recogniser and are not part of the record modelled here.                  *)

TIME_PHRASES_TO_DAYS ==
    << [phrase |-> <<"today">>, days |-> 1],
       [phrase |-> <<"yesterday">>, days |-> 1],
       [phrase |-> <<"tomorrow">>, days |-> 1],
       [phrase |-> <<"this", "week">>, days |-> 7],
       [phrase |-> <<"last", "week">>, days |-> 7],
       [phrase |-> <<"next", "week">>, days |-> 7],
       [phrase |-> <<"this", "month">>, days |-> 30],
       [phrase |-> <<"last", "month">>, days |-> 30],
       [phrase |-> <<"next", "month">>, days |-> 30],
       [phrase |-> <<"recently">>, days |-> 3],
       [phrase |-> <<"past", "few", "days">>, days |-> 3],
       [phrase |-> <<"past", "week">>, days |-> 7],
       [phrase |-> <<"last", "few", "days">>, days |-> 3] >>

\* the one-word patterns of the matcher, compared with the lower-cased token
EventPatterns ==
    {"rain", "rains", "drought", "flood", "floods", "storm", "storms",
     "hailstorm", "wildfire", "wildfires", "unclassified"}
SeverityPatterns ==
    {"heavy", "mild", "severe", "intense", "light", "moderate", "strong", "extreme"}

TextLower(text) == [i \in DOMAIN text |-> Lower(text[i])]

\* phrase in text
Contains(text, phrase) ==
    \E i \in 1 .. (Len(text) - Len(phrase) + 1) :
        SubSeq(text, i, i + Len(phrase) - 1) = phrase

\* the loop over TIME_PHRASES_TO_DAYS: the first phrase found sets days
PhraseDays(text, default) ==
    LET found == {i \in DOMAIN TIME_PHRASES_TO_DAYS :
                      Contains(TextLower(text), TIME_PHRASES_TO_DAYS[i].phrase)}
    IN  IF found = {} THEN default
        ELSE TIME_PHRASES_TO_DAYS[CHOOSE i \in found : \A j \in found : i <= j].days

\* the loop over the matches: the text of the last matching token
LastMatch(text, patterns, default) ==
    LET found == {i \in DOMAIN text : Lower(text[i]) \in patterns}
    IN  IF found = {} THEN default
        ELSE text[CHOOSE i \in found : \A j \in found : j <= i]

\* extract_claim_details: Event Type, Severity and Days of the record
ExtractClaimDetails(text) ==
    LET event_type == LastMatch(text, EventPatterns, "Other")
        severity == LastMatch(text, SeverityPatterns, "Unknown")
        phrase_days == PhraseDays(text, 7)
        days == IF event_type # "drought" THEN phrase_days
                ELSE IF Contains(TextLower(text), <<"month">>) THEN 30
                ELSE Max(phrase_days, 7)
    IN  IF days <= 1 /\ event_type \in {"drought", "flood"}
        THEN [EventType |-> "Insufficient Data", Severity |-> "Unassessable",
              Days |-> days]
        ELSE [EventType |-> event_type, Severity |-> severity, Days |-> days]

NoRecord == [EventType |-> "<none>", Severity |-> "<none>", Days |-> 0]

-----------------------------------------------------------------------------
(* analyze_claim, one action per stage *)

NoResult ==
    [validation_status |-> "<none>", error_message |-> NoMessage,
     has_analysis |-> FALSE, data_period |-> 0]

NoArg == [fn |-> "none"]

\* the attributes __init__ gives the validator
NewValidator ==
    [MIN_DROUGHT_DAYS |-> MIN_DROUGHT_DAYS, MONTHLY_DAYS |-> MONTHLY_DAYS,
     RAINFALL_THRESHOLD |-> RAINFALL_THRESHOLD]

\* weather is the provider's rainfall by date where a specification fixes
\* it in advance; NoWeather where the rainfall is chosen at the call
NoWeather == <<>>
NoRet ==
    [days |-> RaiseV, verdict |-> "<none>", value |-> 0, obs |-> NoObservation,
     analysis |-> NoAnalysis, record |-> NoRecord]

Init ==
    /\ claim \in Claims
    /\ down \in SUBSET OutageDates
    /\ pc = "start"
    /\ days_to_analyze = 0
    /\ calls = <<>>
    /\ historical_data = <<>>
    /\ analysis_result = NoAnalysis
    /\ result = NoResult
    /\ arg = NoArg
    /\ ret = NoRet
    /\ validator = NewValidator
    /\ weather = NoWeather

Crash == pc' = "crashed"

\* analyze_claim, lines 84-89
ValidateInputs ==
    /\ pc = "start"
    /\ LET v == ValidateClaimInputs(claim)
       IN  /\ pc' = CASE v = "ok" -> "validated"
                      [] v = "raise" -> "crashed"
                      [] OTHER -> "done"
           /\ result' = CASE v = "missing" ->
                               [NoResult EXCEPT !.validation_status = InvalidClaim,
                                                !.error_message = MissingMessage]
                          [] v = "drought_min" ->
                               [NoResult EXCEPT !.validation_status = InvalidClaim,
                                                !.error_message = DroughtMessage]
                          [] OTHER -> result
    /\ UNCHANGED <<claim, down, days_to_analyze, calls, historical_data,
                   analysis_result, arg, ret, validator, weather>>

\* analyze_claim, line 91
DeterminePeriod ==
    /\ pc = "validated"
    /\ LET d == DetermineAnalysisPeriod(claim.EventType, claim.Descriptor, claim.Days)
       IN  IF d.t = "int"
           THEN pc' = "period" /\ days_to_analyze' = d.n
           ELSE Crash /\ UNCHANGED days_to_analyze
    /\ UNCHANGED <<claim, down, calls, historical_data, analysis_result, result,
                   arg, ret, validator, weather>>

\* analyze_claim, lines 93-97: fetch_historical_weather.  strptime raises on a
\* missing, None or unparsable date; check_date is unbound when the loop ran
\* no iteration; one gateway call follows the loop.
FetchHistoricalWeather ==
    /\ pc = "period"
    /\ IF claim.Location = Absent \/ claim.Date.t # "int"
       THEN Crash /\ UNCHANGED <<calls, historical_data>>
       ELSE LET check_date == CheckDate(claim.Date.n, days_to_analyze)
            IN  IF check_date.t # "int"
                THEN Crash /\ UNCHANGED <<calls, historical_data>>
                ELSE \E r \in RainVals :
                       LET hourly_data ==
                               GetWeatherData(claim.Location, check_date.n, r, down)
                       IN  /\ calls' = Append(calls, check_date.n)
                           /\ historical_data' =
                                  IF hourly_data.ok
                                  THEN <<[date |-> check_date.n,
                                          rainfall |-> hourly_data.rainfall]>>
                                  ELSE <<>>
                           /\ pc' = "fetched"
    /\ UNCHANGED <<claim, down, days_to_analyze, analysis_result, result, arg, ret,
                   validator, weather>>

\* analyze_claim, lines 99-103
ReturnNoData ==
    /\ pc = "fetched"
    /\ IsEmpty(historical_data)
    /\ pc' = "done"
    /\ result' = [NoResult EXCEPT !.validation_status = UnableToValidate,
                                  !.error_message = NoWeatherData]
    /\ UNCHANGED <<claim, down, days_to_analyze, calls, historical_data,
                   analysis_result, arg, ret, validator, weather>>

\* analyze_claim, lines 105-109; the column lookups of the analyzer raise
\* KeyError on a frame without rows
AnalyzeContext ==
    /\ pc = "fetched"
    /\ ~IsEmpty(historical_data)
    /\ IF claim.EventType = Absent \/ claim.Severity = Absent \/ Len(historical_data) = 0
       THEN Crash /\ UNCHANGED analysis_result
       ELSE /\ analysis_result' = AnalyzeHistoricalContext(historical_data, claim.EventType)
            /\ pc' = "analyzed"
    /\ UNCHANGED <<claim, down, days_to_analyze, calls, historical_data, result,
                   arg, ret, validator, weather>>

\* 'data_period': f"{days_to_analyze} days", the number before " days"
DataPeriodMutRealized(days, window) == Len(window)

DataPeriod(days, window) == days

\* analyze_claim, lines 111-120
Classify ==
    /\ pc = "analyzed"
    /\ LET v == DetermineClaimValidity(analysis_result, claim.EventType, claim.Severity)
       IN  IF v = Raise
           THEN Crash /\ UNCHANGED result
           ELSE /\ pc' = "done"
                /\ result' = [validation_status |-> v, error_message |-> NoMessage,
                              has_analysis |-> TRUE,
                              data_period |-> DataPeriod(days_to_analyze, historical_data)]
    /\ UNCHANGED <<claim, down, days_to_analyze, calls, historical_data,
                   analysis_result, arg, ret, validator, weather>>

Next ==
    \/ ValidateInputs
    \/ DeterminePeriod
    \/ FetchHistoricalWeather
    \/ ReturnNoData
    \/ AnalyzeContext
    \/ Classify

Spec == Init /\ [][Next]_vars

-----------------------------------------------------------------------------
(* The pure functions of the engine applied to every input of a bounded      *)
(* domain: SpecFn draws one argument tuple and applies the function to it.   *)

FnSeverityVals == {Null, "Mild", "Moderate", "Severe", "Unknown"}

PeriodArgs ==
    [fn : {"period"}, et : EventTypeVals, dd : DescriptorVals,
     days : {AbsentV, NullV} \cup {IntV(n) : n \in 0 .. MaxDays}]

RainArgs ==
    [fn : {"rain"},
     peak : {Mm(x) : x \in {0, 20, 23, 30, 40, 45, 46, 50, 300}},
     intensity : {Mm(x) : x \in {0, 10, 11}},
     threshold : {Mm(x) : x \in {0, 30, 40}},
     severity : FnSeverityVals]

DroughtArgs ==
    [fn : {"drought"},
     dry_spell : {0, 4, 5, 6, 7, 10, 13, 14, 15},
     total_rainfall : {Mm(x) : x \in {0, 4, 5, 6}},
     days_below : {0, 4, 5, 6, 15},
     severity : FnSeverityVals]

\* daily rainfall values of a series, in hundredths of a millimetre
SeriesVals == {0, 2, 5, 10, 500}

RainfallSeries == UNION {[1 .. n -> SeriesVals] : n \in 1 .. MaxLen}

DryArgs == [fn : {"dry"}, series : RainfallSeries]


\* hour records of the weather provider
TempVals ==
    {JFloat(v) : v \in {-350, 5, 2500}} \cup {JInt(n) : n \in {-4, 31}}
        \cup {JMissing, JNone, JStr(<<"N", "/", "A">>)}
PrecipVals ==
    {JFloat(v) : v \in {0, 5, 1230, 30000}} \cup {JInt(12)}
        \cup {JMissing, JNone, JStr(<<"t", "r", "a", "c", "e">>)}
HumidityVals ==
    {JInt(n) : n \in {0, 7, 85, 100}} \cup {JFloat(4550)}
        \cup {JMissing, JNone, JStr(<<"1", ".", "2", ".", "3">>)}
HourData == [temp_c : TempVals, precip_mm : PrecipVals, humidity : HumidityVals]
WeatherArgs ==
    [fn : {"weather"}, error : {FALSE}, hour : HourData]
        \cup [fn : {"weather"}, error : {TRUE},
              hour : {[temp_c |-> JMissing, precip_mm |-> JMissing, humidity |-> JMissing]}]


\* claim texts of 1..MaxWords words
TextWords ==
    {"Drought", "drought", "flood", "Yesterday", "this", "month", "week",
     "severe", "crops"}
ClaimTexts == UNION {[1 .. n -> TextWords] : n \in 1 .. MaxWords}
ExtractArgs == [fn : {"extract"}, text : ClaimTexts]

\* the frame whose rainfall column is the series, one row per day
FrameOf(series) == [i \in DOMAIN series |-> [date |-> i, rainfall |-> series[i]]]

InitFn ==
    /\ arg \in PeriodArgs \cup RainArgs \cup DroughtArgs \cup DryArgs \cup WeatherArgs
               \cup ExtractArgs
    /\ ret = NoRet
    /\ pc = "call"
    /\ claim = CHOOSE c \in Claims : TRUE
    /\ down = {}
    /\ days_to_analyze = 0
    /\ calls = <<>>
    /\ historical_data = <<>>
    /\ analysis_result = NoAnalysis
    /\ result = NoResult
    /\ validator = NewValidator
    /\ weather = NoWeather

pipeline == <<claim, down, days_to_analyze, calls, historical_data,
              analysis_result, result, validator, weather>>

ApplyDeterminePeriod ==
    /\ pc = "call"
    /\ arg.fn = "period"
    /\ ret' = [NoRet EXCEPT !.days = DetermineAnalysisPeriod(arg.et, arg.dd, arg.days)]
    /\ pc' = "returned"
    /\ UNCHANGED <<arg, pipeline>>

ApplyValidateRainfall ==
    /\ pc = "call"
    /\ arg.fn = "rain"
    /\ ret' = [NoRet EXCEPT !.verdict =
                  ValidateRainfallClaim(arg.peak, arg.intensity, arg.threshold,
                                        arg.severity)]
    /\ pc' = "returned"
    /\ UNCHANGED <<arg, pipeline>>

ApplyValidateDrought ==
    /\ pc = "call"
    /\ arg.fn = "drought"
    /\ ret' = [NoRet EXCEPT !.verdict =
                  ValidateDroughtClaim(arg.dry_spell, arg.total_rainfall,
                                       arg.days_below, arg.severity)]
    /\ pc' = "returned"
    /\ UNCHANGED <<arg, pipeline>>

ApplyCountConsecutiveDry ==
    /\ pc = "call"
    /\ arg.fn = "dry"
    /\ ret' = [NoRet EXCEPT !.value =
                  CountConsecutiveLowRainfallDays(FrameOf(arg.series),
                                                  DEFAULT_DRY_THRESHOLD)]
    /\ pc' = "returned"
    /\ UNCHANGED <<arg, pipeline>>

\* the API formats the provider's hour record and the gateway parses the
\* payload it receives
ApplyGetWeatherData ==
    /\ pc = "call"
    /\ arg.fn = "weather"
    /\ ret' = [NoRet EXCEPT !.obs = ParseWeatherData(DisplayWeather(arg))]
    /\ pc' = "returned"
    /\ UNCHANGED <<arg, pipeline>>

ApplyExtractClaimDetails ==
    /\ pc = "call"
    /\ arg.fn = "extract"
    /\ ret' = [NoRet EXCEPT !.record = ExtractClaimDetails(arg.text)]
    /\ pc' = "returned"
    /\ UNCHANGED <<arg, pipeline>>

NextFn ==
    \/ ApplyDeterminePeriod
    \/ ApplyValidateRainfall
    \/ ApplyValidateDrought
    \/ ApplyCountConsecutiveDry
    \/ ApplyGetWeatherData
    \/ ApplyExtractClaimDetails

SpecFn == InitFn /\ [][NextFn]_vars

-----------------------------------------------------------------------------
(* Two evaluations of analyze_claim on one validator, their stages           *)
(* interleaved in any order.  claim, pc and result are indexed by the        *)
(* evaluation; days_to_analyze, historical_data and analysis_result are the  *)
(* local variables of analyze_claim and live in the frame of the call.  The  *)
(* provider's answers are fixed in advance: down and weather.                *)

Evaluations == 1 .. 2

\* where the local variables of evaluation p live: in the frame of its call
LocalsMutOnInstance(p) == 1

Locals(p) == p

TwoClaims ==
    [Location : {"Lagos"}, Date : {IntV(Anchor)},
     EventType : {"rain", "drought", "storm"},
     Severity : {Absent, Null, "Severe"},
     Days : {IntV(MIN_DROUGHT_DAYS - 1), IntV(MaxDays)},
     Descriptor : {Absent, "yesterday"}]

\* the dates those claims make the window builder ask for
TwoDates == {Anchor, Anchor - 1, Anchor - (MaxDays - 1)}

RainfallOn(date) == IF date \in DOMAIN weather THEN weather[date] ELSE 0

InitTwo ==
    /\ claim \in [Evaluations -> TwoClaims]
    /\ down \in SUBSET TwoDates
    /\ weather \in [TwoDates -> {0, 30000}]
    /\ validator = NewValidator
    /\ pc = [p \in Evaluations |-> "start"]
    /\ days_to_analyze = [p \in Evaluations |-> 0]
    /\ calls = [p \in Evaluations |-> <<>>]
    /\ historical_data = [p \in Evaluations |-> <<>>]
    /\ analysis_result = [p \in Evaluations |-> NoAnalysis]
    /\ result = [p \in Evaluations |-> NoResult]
    /\ arg = NoArg
    /\ ret = NoRet

fixed == <<claim, down, weather, validator, arg, ret>>

\* analyze_claim, lines 84-89
EvalValidateInputs(p) ==
    /\ pc[p] = "start"
    /\ LET v == ValidateClaimInputs(claim[p])
       IN  /\ pc' = [pc EXCEPT ![p] = CASE v = "ok" -> "validated"
                                        [] v = "raise" -> "crashed"
                                        [] OTHER -> "done"]
           /\ result' =
                  [result EXCEPT ![p] =
                      CASE v = "missing" ->
                             [NoResult EXCEPT !.validation_status = InvalidClaim,
                                              !.error_message = MissingMessage]
                        [] v = "drought_min" ->
                             [NoResult EXCEPT !.validation_status = InvalidClaim,
                                              !.error_message = DroughtMessage]
                        [] OTHER -> result[p]]
    /\ UNCHANGED <<fixed, days_to_analyze, calls, historical_data, analysis_result>>

\* analyze_claim, line 91
EvalDeterminePeriod(p) ==
    /\ pc[p] = "validated"
    /\ LET d == DetermineAnalysisPeriod(claim[p].EventType, claim[p].Descriptor,
                                        claim[p].Days)
       IN  IF d.t = "int"
           THEN /\ pc' = [pc EXCEPT ![p] = "period"]
                /\ days_to_analyze' = [days_to_analyze EXCEPT ![Locals(p)] = d.n]
           ELSE /\ pc' = [pc EXCEPT ![p] = "crashed"]
                /\ UNCHANGED days_to_analyze
    /\ UNCHANGED <<fixed, calls, historical_data, analysis_result, result>>

\* analyze_claim, lines 93-97
EvalFetchHistoricalWeather(p) ==
    /\ pc[p] = "period"
    /\ LET check_date == CheckDate(claim[p].Date.n, days_to_analyze[Locals(p)])
       IN  IF claim[p].Location = Absent \/ claim[p].Date.t # "int"
              \/ check_date.t # "int"
           THEN /\ pc' = [pc EXCEPT ![p] = "crashed"]
                /\ UNCHANGED <<calls, historical_data>>
           ELSE LET hourly_data ==
                        GetWeatherData(claim[p].Location, check_date.n,
                                       RainfallOn(check_date.n), down)
                IN  /\ calls' = [calls EXCEPT ![p] = Append(@, check_date.n)]
                    /\ historical_data' =
                           [historical_data EXCEPT ![Locals(p)] =
                               IF hourly_data.ok
                               THEN <<[date |-> check_date.n,
                                       rainfall |-> hourly_data.rainfall]>>
                               ELSE <<>>]
                    /\ pc' = [pc EXCEPT ![p] = "fetched"]
    /\ UNCHANGED <<fixed, days_to_analyze, analysis_result, result>>

\* analyze_claim, lines 99-103
EvalReturnNoData(p) ==
    /\ pc[p] = "fetched"
    /\ IsEmpty(historical_data[Locals(p)])
    /\ pc' = [pc EXCEPT ![p] = "done"]
    /\ result' = [result EXCEPT ![p] =
                     [NoResult EXCEPT !.validation_status = UnableToValidate,
                                      !.error_message = NoWeatherData]]
    /\ UNCHANGED <<fixed, days_to_analyze, calls, historical_data, analysis_result>>

\* analyze_claim, lines 105-109
EvalAnalyzeContext(p) ==
    /\ pc[p] = "fetched"
    /\ ~IsEmpty(historical_data[Locals(p)])
    /\ IF claim[p].EventType = Absent \/ claim[p].Severity = Absent
          \/ Len(historical_data[Locals(p)]) = 0
       THEN /\ pc' = [pc EXCEPT ![p] = "crashed"]
            /\ UNCHANGED analysis_result
       ELSE /\ analysis_result' =
                   [analysis_result EXCEPT ![Locals(p)] =
                       AnalyzeHistoricalContext(historical_data[Locals(p)],
                                                claim[p].EventType)]
            /\ pc' = [pc EXCEPT ![p] = "analyzed"]
    /\ UNCHANGED <<fixed, days_to_analyze, calls, historical_data, result>>

\* analyze_claim, lines 111-120
EvalClassify(p) ==
    /\ pc[p] = "analyzed"
    /\ LET v == DetermineClaimValidity(analysis_result[Locals(p)],
                                       claim[p].EventType, claim[p].Severity)
       IN  IF v = Raise
           THEN /\ pc' = [pc EXCEPT ![p] = "crashed"]
                /\ UNCHANGED result
           ELSE /\ pc' = [pc EXCEPT ![p] = "done"]
                /\ result' =
                       [result EXCEPT ![p] =
                           [validation_status |-> v, error_message |-> NoMessage,
                            has_analysis |-> TRUE,
                            data_period |->
                                DataPeriod(days_to_analyze[Locals(p)],
                                           historical_data[Locals(p)])]]
    /\ UNCHANGED <<fixed, days_to_analyze, calls, historical_data, analysis_result>>

NextTwo ==
    \E p \in Evaluations :
        \/ EvalValidateInputs(p)
        \/ EvalDeterminePeriod(p)
        \/ EvalFetchHistoricalWeather(p)
        \/ EvalReturnNoData(p)
        \/ EvalAnalyzeContext(p)
        \/ EvalClassify(p)

SpecTwo == InitTwo /\ [][NextTwo]_vars

-----------------------------------------------------------------------------
(* The drought analyzer and the drought rules applied to windows of up to    *)
(* MaxWindow daily observations, each just below or exactly at the dry-day   *)
(* threshold.                                                                *)

WindowSeries == UNION {[1 .. n -> {5, 10}] : n \in 1 .. MaxWindow}

WindowArgs == [fn : {"window"}, series : WindowSeries, severity : {"Mild", "Severe"}]

InitDrought ==
    /\ arg \in WindowArgs
    /\ ret = NoRet
    /\ pc = "call"
    /\ claim = CHOOSE c \in Claims : TRUE
    /\ down = {}
    /\ days_to_analyze = 0
    /\ calls = <<>>
    /\ historical_data = <<>>
    /\ analysis_result = NoAnalysis
    /\ result = NoResult
    /\ validator = NewValidator
    /\ weather = NoWeather

\* _analyze_drought_event on the window
ApplyAnalyzeDrought ==
    /\ pc = "call"
    /\ arg.fn = "window"
    /\ ret' = [ret EXCEPT !.analysis = AnalyzeDroughtEvent(FrameOf(arg.series))]
    /\ pc' = "analyzed"
    /\ UNCHANGED <<arg, pipeline>>

\* _validate_drought_claim on the metrics
ApplyClassifyDrought ==
    /\ pc = "analyzed"
    /\ arg.fn = "window"
    /\ ret' = [ret EXCEPT !.verdict =
                  ValidateDroughtClaim(ret.analysis.dry_spell_length,
                                       ret.analysis.total_rainfall,
                                       ret.analysis.days_below_threshold,
                                       arg.severity)]
    /\ pc' = "returned"
    /\ UNCHANGED <<arg, pipeline>>

NextDrought ==
    \/ ApplyAnalyzeDrought
    \/ ApplyClassifyDrought

SpecDrought == InitDrought /\ [][NextDrought]_vars

-----------------------------------------------------------------------------
(* Claims *)

MissingRequired(c) ==
    \/ c.Location = Absent
    \/ c.Date.t = "absent"
    \/ c.EventType = Absent
    \/ c.Severity = Absent

\* C1: a claim that lacks one of Location, Date, Event Type, Severity ends in
\* 'Invalid Claim' with an error message, and no gateway call is ever issued
\* during its evaluation.
C1_MissingFieldRejected ==
    MissingRequired(claim) =>
        /\ calls = <<>>
        /\ pc # "start" =>
              /\ pc = "done"
              /\ result.validation_status = InvalidClaim
              /\ result.error_message # NoMessage

C1_Witness ==
    /\ pc = "done"
    /\ claim.Severity = Absent
    /\ claim.Location = "Lagos" /\ claim.Date.t = "int" /\ claim.EventType = "rain"
    /\ result.validation_status = InvalidClaim

IsDroughtClaim(c) ==
    c.EventType \notin {Absent, Null} /\ Lower(c.EventType) = "drought"

DaysBelowMinimum(c) ==
    c.Days.t = "absent" \/ (c.Days.t = "int" /\ c.Days.n < 7)

\* C2: a drought claim whose Days is below 7 or absent ends in 'Invalid Claim'
\* whatever its Date Descriptor, and no gateway call is made before (or after)
\* the rejection.
C2_ShortDroughtRejected ==
    (IsDroughtClaim(claim) /\ DaysBelowMinimum(claim)) =>
        /\ calls = <<>>
        /\ pc # "start" =>
              /\ pc = "done"
              /\ result.validation_status = InvalidClaim

C2_Witness ==
    /\ pc = "done"
    /\ ~MissingRequired(claim)
    /\ claim.EventType = "Drought"
    /\ claim.Days.t = "absent"
    /\ claim.Descriptor = "this month"
    /\ result.validation_status = InvalidClaim
    /\ result.error_message = DroughtMessage

\* the window length the specification prescribes; event type and descriptor
\* are read without regard to letter case, an absent Days is the minimum
ExpectedPeriod(et, dd, days) ==
    LET drought == et # Absent /\ Lower(et) = "drought"
        this_month == dd # Absent /\ Lower(dd) = "this month"
        yesterday == dd # Absent /\ Lower(dd) = "yesterday"
        requested == IF days.t = "absent" THEN 7 ELSE days.n
    IN  CASE drought /\ this_month -> 30
          [] drought /\ ~this_month -> Max(requested, 7)
          [] ~drought /\ this_month -> 30
          [] ~drought /\ yesterday -> 2
          [] OTHER -> 1

PeriodArgDefined(a) ==
    a.et # Null /\ a.dd # Null /\ ~(a.days.t = "null" /\ Lower(a.et) = "drought"
                                    /\ Lower(a.dd) # "this month")

\* C3: the window length chosen is 30 for a drought claim with descriptor
\* 'this month', max(Days, 7) for any other drought claim, 30 for a non-drought
\* claim with 'this month', 2 for a non-drought claim with 'yesterday', and 1
\* otherwise, for every combination of event type, descriptor and Days.
C3_WindowPolicy ==
    (pc = "returned" /\ arg.fn = "period" /\ PeriodArgDefined(arg)) =>
        ret.days = IntV(ExpectedPeriod(arg.et, arg.dd, arg.days))

C3_Witness ==
    /\ pc = "returned"
    /\ arg.fn = "period"
    /\ arg.et = "rain" /\ arg.dd = "yesterday" /\ arg.days = IntV(MaxDays)
    /\ ret.days = IntV(2)

\* the calendar dates of the requested span [anchor - (days - 1), anchor]
Span(anchor, days) == {anchor - k : k \in 0 .. (days - 1)}

\* the window builder has returned for the claim's (location, anchor, days)
WindowBuilt == pc \in {"fetched", "analyzed", "done"} /\ calls # <<>>

\* the dates of the requested span on which the gateway answers
UpDates(anchor, days, outage) == Span(anchor, days) \ outage

\* C4: after a window is built for (location, anchor, days), its length is at
\* most days and equals the number of dates of [anchor-(days-1), anchor] on
\* which the gateway fetch succeeds, for every pattern of daily failures.
C4_WindowLengthIsSuccessCount ==
    WindowBuilt =>
        /\ Len(historical_data) <= days_to_analyze
        /\ Len(historical_data) =
              Cardinality(UpDates(claim.Date.n, days_to_analyze, down))

\* C5: building a window of `days` days issues exactly one gateway call for
\* each date from anchor-(days-1) to anchor and none for any other date.
C5_OneCallPerDate ==
    WindowBuilt =>
        /\ {calls[i] : i \in DOMAIN calls} = Span(claim.Date.n, days_to_analyze)
        /\ Len(calls) = days_to_analyze

EmptyWindowBuilt == calls # <<>> /\ historical_data = <<>> /\ pc # "fetched"

\* C7: when a claim passes input validation and the window comes back empty,
\* analyze_claim returns 'Unable to Validate' with 'No weather data available'
\* and neither the statistical analysis nor the classifier has run.
C7_EmptyWindowUnableToValidate ==
    EmptyWindowBuilt =>
        /\ pc = "done"
        /\ result.validation_status = UnableToValidate
        /\ result.error_message = NoWeatherData
        /\ ~result.has_analysis
        /\ analysis_result = NoAnalysis

C7_Witness ==
    /\ pc = "done"
    /\ claim.EventType = "drought"
    /\ days_to_analyze = MaxDays
    /\ calls # <<>>
    /\ historical_data = <<>>
    /\ result.validation_status = UnableToValidate

\* the ordered rule list of the specification for rain and flood claims
ExpectedRainfallVerdict(peak, intensity, threshold, severity) ==
    CASE 2 * peak > 3 * threshold -> ExtremeRainfall
      [] ~(2 * peak > 3 * threshold)
         /\ peak > threshold /\ severity \in {"Moderate", "Severe"} -> SignificantRainfall
      [] ~(2 * peak > 3 * threshold)
         /\ ~(peak > threshold /\ severity \in {"Moderate", "Severe"})
         /\ intensity > Mm(10) /\ severity = "Severe" -> HighIntensityRainfall
      [] ~(2 * peak > 3 * threshold)
         /\ ~(peak > threshold /\ severity \in {"Moderate", "Severe"})
         /\ ~(intensity > Mm(10) /\ severity = "Severe")
         /\ 4 * peak > 3 * threshold -> ModerateRainfall
      [] OTHER -> RainfallBelow

\* C8: for rain and flood claims the verdict is the first matching rule of:
\* peak > 1.5*threshold: Extreme Rainfall Event; peak > threshold and severity
\* Moderate or Severe: Significant Rainfall; intensity > 10 and severity
\* Severe: High Intensity Rainfall; peak > 0.75*threshold: Moderate Rainfall;
\* otherwise Rainfall Below Expected Threshold.  Peak 50, threshold 30, Severe
\* gives the first verdict.
C8_RainfallRules ==
    (pc = "returned" /\ arg.fn = "rain" /\ arg.severity # Null) =>
        /\ ret.verdict = ExpectedRainfallVerdict(arg.peak, arg.intensity,
                                                 arg.threshold, arg.severity)
        /\ (arg.peak = Mm(50) /\ arg.threshold = Mm(30) /\ arg.severity = "Severe")
              => ret.verdict = ExtremeRainfall

C8_Witness ==
    /\ pc = "returned"
    /\ arg.fn = "rain"
    /\ arg.peak = Mm(50) /\ arg.threshold = Mm(30) /\ arg.severity = "Severe"
    /\ ret.verdict = ExtremeRainfall

\* the ordered rule list of the specification for drought claims
ExpectedDroughtVerdict(dry_spell, days_below, total_rainfall, severity) ==
    CASE dry_spell >= 14 /\ severity = "Severe" -> SevereDrought
      [] ~(dry_spell >= 14 /\ severity = "Severe")
         /\ dry_spell >= 7 /\ days_below >= 5 -> ModerateDrought
      [] ~(dry_spell >= 14 /\ severity = "Severe")
         /\ ~(dry_spell >= 7 /\ days_below >= 5)
         /\ total_rainfall < Mm(5) /\ dry_spell >= 5 -> MildDrought
      [] OTHER -> InsufficientDrought

\* C9: for drought claims the verdict is the first matching rule of:
\* dry spell >= 14 and severity Severe: Severe Drought Conditions; dry spell
\* >= 7 and days below threshold >= 5: Moderate Drought Conditions whatever
\* the severity; total rainfall < 5 and dry spell >= 5: Mild Drought
\* Conditions; otherwise Insufficient Drought Indicators.  Dry spell 10, days
\* below 6, Mild gives the second verdict.
C9_DroughtRules ==
    (pc = "returned" /\ arg.fn = "drought" /\ arg.severity # Null) =>
        /\ ret.verdict = ExpectedDroughtVerdict(arg.dry_spell, arg.days_below,
                                                arg.total_rainfall, arg.severity)
        /\ (arg.dry_spell = 10 /\ arg.days_below = 6 /\ arg.severity = "Mild")
              => ret.verdict = ModerateDrought

C9_Witness ==
    /\ pc = "returned"
    /\ arg.fn = "drought"
    /\ arg.dry_spell = 10 /\ arg.days_below = 6 /\ arg.severity = "Mild"
    /\ ret.verdict = ModerateDrought

\* C10: a claim that passes input validation, has a non-empty window and whose
\* event type is none of rain, flood, drought gets the verdict
\* 'Unable to Validate - Unknown Event Type'.
C10_UnknownEventTypeVerdict ==
    (pc = "done" /\ calls # <<>> /\ historical_data # <<>>
     /\ Lower(claim.EventType) \notin {"rain", "flood", "drought"}) =>
        result.validation_status = UnknownEventType

\* a day is dry when its rainfall is below 0.1 mm
IsDryDay(r) == r < 10

\* the stretches i..j of a series that hold dry days only
DryStretches(series) ==
    {ij \in (DOMAIN series) \X (DOMAIN series) :
        ij[1] <= ij[2] /\ \A k \in ij[1] .. ij[2] : IsDryDay(series[k])}

LongestDryRun(series) ==
    IF DryStretches(series) = {} THEN 0
    ELSE MaxOf({ij[2] - ij[1] + 1 : ij \in DryStretches(series)})

\* C11: for every non-empty daily rainfall sequence the consecutive-dry-days
\* result is the length of the longest run of consecutive days with rainfall
\* below 0.1 mm, and 0 when no day is dry; a wet day ends the current run.
C11_LongestDryRun ==
    (pc = "returned" /\ arg.fn = "dry") =>
        ret.value = LongestDryRun(arg.series)

C11_Witness ==
    /\ pc = "returned"
    /\ arg.fn = "dry"
    /\ arg.series = <<0, 500, 5, 2, 10, 0>>
    /\ ret.value = 2

\* the series [0.0, 0.05, 5.0, 0.02, 0.0, 0.0]
SpecSeries == <<0, 5, 500, 2, 0, 0>>

\* C12 as stated: for the series [0.0, 0.05, 5.0, 0.02, 0.0, 0.0] with dry
\* threshold 0.1 the consecutive-dry-days computation returns 2.
C12_SpecSeriesReturnsTwo ==
    (pc = "returned" /\ arg.fn = "dry" /\ arg.series = SpecSeries) =>
        ret.value = 2

\* C12 as amended: for the series [0.0, 0.05, 5.0, 0.02, 0.0, 0.0] with dry
\* threshold 0.1 the runs are 2 dry days, 1 wet day and 3 dry days, and the
\* consecutive-dry-days computation returns 3, the longest dry run.
C12_SpecSeriesReturnsThree ==
    (pc = "returned" /\ arg.fn = "dry" /\ arg.series = SpecSeries) =>
        /\ ret.value = 3
        /\ \A k \in {1, 2, 4, 5, 6} : IsDryDay(SpecSeries[k])
        /\ ~IsDryDay(SpecSeries[3])

C12_Witness ==
    /\ pc = "returned"
    /\ arg.fn = "dry"
    /\ arg.series = SpecSeries
    /\ ret.value = 3

\* analyze_claim returned a classification with its analysis
Classified == pc = "done" /\ result.has_analysis

\* C13 as stated: in every successful result data_period is '<n> days' with n
\* the realized window length, the number of observations actually fetched.
C13_DataPeriodIsRealizedLength ==
    Classified => result.data_period = Len(historical_data)

\* C13 as amended: in every successful result data_period is '<n> days' with
\* n the window length chosen by the window-size policy for the claim,
\* whatever number of observations was actually fetched.
C13_DataPeriodIsChosenLength ==
    Classified =>
        result.data_period =
            DetermineAnalysisPeriod(claim.EventType, claim.Descriptor, claim.Days).n

C13_Witness ==
    /\ Classified
    /\ claim.Descriptor = "this month"
    /\ result.data_period = MONTHLY_DAYS
    /\ Len(historical_data) = 1

\* C14: for every claim record (null or wrongly typed values, an unparsable
\* date, an unrecognised event type or severity included) and every gateway
\* behaviour, analyze_claim ends by returning a record that holds
\* validation_status; no evaluation ends in an uncaught error.
C14_AlwaysReturnsVerdict ==
    /\ pc # "crashed"
    /\ pc = "done" => result.validation_status # NoResult.validation_status

\* what a value of the hour record is as a number of hundredths, and
\* whether the text the view makes of it is a number at all
IsNumber(value) == value.k \in {"float", "int"}
Hundredths(value) == IF value.k = "int" THEN value.v * 100 ELSE value.v
Formatted(hour_value, default) ==
    IF hour_value.k = "missing" THEN default ELSE hour_value
Recovered(hour_value, default, parsed) ==
    IF IsNumber(Formatted(hour_value, default))
    THEN parsed = Hundredths(Formatted(hour_value, default))
    ELSE parsed = 0
GatewayReturned == pc = "returned" /\ arg.fn = "weather" /\ ~arg.error

\* C15: when one of rainfall, temperature or humidity of the payload cannot
\* be parsed as a number, the gateway still returns an observation, the
\* unparsable field is 0.0 and the other two fields keep the values parsed
\* from the payload.
C15_UnparsableFieldIsZero ==
    GatewayReturned =>
        /\ ret.obs.ok
        /\ Recovered(arg.hour.precip_mm, JFloat(0), ret.obs.rainfall)
        /\ Recovered(arg.hour.temp_c, JStr(<<>>), ret.obs.temperature)
        /\ Recovered(arg.hour.humidity, JInt(0), ret.obs.humidity)

C15_Witness ==
    /\ GatewayReturned
    /\ arg.hour.precip_mm = JFloat(1230)
    /\ arg.hour.temp_c = JStr(<<"N", "/", "A">>)
    /\ arg.hour.humidity = JInt(85)
    /\ ret.obs = [ok |-> TRUE, rainfall |-> 1230, temperature |-> 0, humidity |-> 8500]

\* the provider fails on exactly one date of the requested span
OneDayFails ==
    Cardinality(Span(claim.Date.n, days_to_analyze) \cap down) = 1

\* C16: when the provider fails for one day of the requested span, exactly
\* that day is absent from the window and every other day of the span is
\* present, and analyze_claim still returns a classification as long as at
\* least one day succeeded.
C16_OnlyFailedDayAbsent ==
    (WindowBuilt /\ OneDayFails) =>
        /\ WindowDates(historical_data) =
              UpDates(claim.Date.n, days_to_analyze, down)
        /\ (pc = "done" /\ UpDates(claim.Date.n, days_to_analyze, down) # {})
              => result.has_analysis

\* what analyze_claim returns for claim c when it is the only evaluation,
\* with the provider's answers of the current behaviour
Ended(at, res) == [pc |-> at, result |-> res]

RunAlone(c) ==
    LET v == ValidateClaimInputs(c)
        d == DetermineAnalysisPeriod(c.EventType, c.Descriptor, c.Days)
        check_date == CheckDate(c.Date.n, d.n)
        hourly_data == GetWeatherData(c.Location, check_date.n,
                                      RainfallOn(check_date.n), down)
        window == IF hourly_data.ok
                  THEN <<[date |-> check_date.n, rainfall |-> hourly_data.rainfall]>>
                  ELSE <<>>
        verdict == DetermineClaimValidity(AnalyzeHistoricalContext(window, c.EventType),
                                          c.EventType, c.Severity)
    IN  CASE v = "raise" -> Ended("crashed", NoResult)
          [] v = "missing" ->
               Ended("done", [NoResult EXCEPT !.validation_status = InvalidClaim,
                                              !.error_message = MissingMessage])
          [] v = "drought_min" ->
               Ended("done", [NoResult EXCEPT !.validation_status = InvalidClaim,
                                              !.error_message = DroughtMessage])
          [] d.t # "int" -> Ended("crashed", NoResult)
          [] c.Location = Absent \/ c.Date.t # "int" \/ check_date.t # "int" ->
               Ended("crashed", NoResult)
          [] window = <<>> ->
               Ended("done", [NoResult EXCEPT !.validation_status = UnableToValidate,
                                              !.error_message = NoWeatherData])
          [] c.EventType = Absent \/ c.Severity = Absent \/ verdict = Raise ->
               Ended("crashed", NoResult)
          [] OTHER ->
               Ended("done", [validation_status |-> verdict,
                              error_message |-> NoMessage, has_analysis |-> TRUE,
                              data_period |-> d.n])

\* C17: when two analyze_claim evaluations on the same validator are
\* interleaved in any order, each ends exactly as it ends when run alone
\* with the same provider answers, and the validator's configuration
\* (minimum drought days, monthly days, dry threshold) is unchanged.
C17_InterleavedAsAlone ==
    /\ validator = NewValidator
    /\ \A p \in Evaluations :
           pc[p] \in {"done", "crashed"} =>
               Ended(pc[p], result[p]) = RunAlone(claim[p])

C17_Witness ==
    /\ \A p \in Evaluations : pc[p] = "done" /\ result[p].has_analysis
    /\ claim[1].EventType = "rain" /\ claim[2].EventType = "drought"
    /\ result[1].validation_status # result[2].validation_status
    /\ result[1].data_period # result[2].data_period

\* the text '12.3 mm'
TwelvePointThreeMm == <<"1", "2", ".", "3", " ", "m", "m">>

\* C19: formatting and parsing round-trip: for every number v the API view
\* formats as a unit-suffixed string ('<v> mm' for rainfall, '<v>°C' for
\* temperature, '<v>%' for humidity) the gateway's parser recovers v; in
\* particular the view's text for 12.3 is '12.3 mm' and parsing it yields 12.3.
C19_FormatThenParseRecovers ==
    GatewayReturned =>
        /\ IsNumber(arg.hour.precip_mm) =>
               ret.obs.rainfall = Hundredths(arg.hour.precip_mm)
        /\ IsNumber(arg.hour.temp_c) =>
               ret.obs.temperature = Hundredths(arg.hour.temp_c)
        /\ IsNumber(arg.hour.humidity) =>
               ret.obs.humidity = Hundredths(arg.hour.humidity)
        /\ arg.hour.precip_mm = JFloat(1230) =>
               /\ DisplayWeather(arg).rainfall = JStr(TwelvePointThreeMm)
               /\ ParseNumericValue(JStr(TwelvePointThreeMm), <<"m", "m">>) = 1230

C19_Witness ==
    /\ GatewayReturned
    /\ arg.hour.precip_mm = JFloat(1230)
    /\ arg.hour.temp_c = JFloat(-350)
    /\ arg.hour.humidity = JInt(85)
    /\ ret.obs = [ok |-> TRUE, rainfall |-> 1230, temperature |-> -350,
                  humidity |-> 8500]

DroughtVerdicts == {SevereDrought, ModerateDrought, MildDrought, InsufficientDrought}

\* C20: the pipeline stages agree on the event type: every claim that input
\* validation and the window-size policy treat as a drought claim (Event Type
\* compared case-insensitively, e.g. 'Drought') gets drought metrics from the
\* analyzer and is classified by the drought rules, and a claim the policy
\* treats as non-drought is never classified by the drought rules.
C20_StagesAgreeOnEventType ==
    Classified =>
        /\ IsDroughtClaim(claim) =>
               /\ analysis_result.event_specific = "drought"
               /\ result.validation_status \in DroughtVerdicts
        /\ ~IsDroughtClaim(claim) =>
               result.validation_status \notin DroughtVerdicts

\* analyze_claim classified a rain or flood claim on a window of exactly one
\* daily observation
SingleObservationRain ==
    /\ Classified
    /\ claim.EventType \in {"rain", "flood"}
    /\ Len(historical_data) = 1
    /\ historical_data[1].rainfall >= 0

\* rule 3: the intensity, a 24th of the day's rainfall (in hundredths of a
\* millimetre), exceeds 10 mm/hour and the severity is severe
RuleThreeFires(rainfall, severity) ==
    rainfall > 24 * 10 * 100 /\ Lower(severity) = "severe"

\* C21: for a rain or flood claim whose window holds exactly one daily
\* observation with non-negative rainfall the peak equals the 95th-percentile
\* threshold, so the verdict is never 'Validated - Extreme Rainfall Event' nor
\* 'Validated - Significant Rainfall': it is 'Partially Validated - Moderate
\* Rainfall' for any positive rainfall (unless rule 3 fires) and 'Invalid -
\* Rainfall Below Expected Threshold' for zero rainfall.
C21_SingleObservationVerdict ==
    SingleObservationRain =>
        /\ analysis_result.peak_daily_rainfall =
              analysis_result.extreme_rainfall_threshold
        /\ result.validation_status \notin {ExtremeRainfall, SignificantRainfall}
        /\ result.validation_status =
              IF RuleThreeFires(historical_data[1].rainfall, claim.Severity)
              THEN HighIntensityRainfall
              ELSE IF historical_data[1].rainfall > 0 THEN ModerateRainfall
              ELSE RainfallBelow

C21_Witness ==
    /\ SingleObservationRain
    /\ historical_data[1].rainfall = 400
    /\ claim.Severity = "Severe"
    /\ result.validation_status = ModerateRainfall

\* the drought analyzer has run on the window of arg
DroughtAnalyzed == arg.fn = "window" /\ pc \in {"analyzed", "returned"}

\* C22: for every non-empty window the drought metrics satisfy
\* 0 <= dry_spell_length <= days_below_threshold <= number of observations in
\* the window; hence 'Validated - Severe Drought Conditions' is only reachable
\* with a window of at least 14 observations.
C22_DroughtMetricsOrdered ==
    DroughtAnalyzed =>
        /\ 0 <= ret.analysis.dry_spell_length
        /\ ret.analysis.dry_spell_length <= ret.analysis.days_below_threshold
        /\ ret.analysis.days_below_threshold <= Len(arg.series)
        /\ ret.verdict = SevereDrought => Len(arg.series) >= 14

C22_Witness ==
    /\ DroughtAnalyzed
    /\ pc = "returned"
    /\ Len(arg.series) = 14
    /\ ret.analysis.dry_spell_length = 14
    /\ ret.analysis.days_below_threshold = 14
    /\ ret.verdict = SevereDrought

\* the Location or the Date key of the claim is present and holds None
NullLocationOrDate(c) == c.Location = Null \/ c.Date.t = "null"

\* C23: analyze_claim never issues a gateway call with a null location or
\* date: a claim whose Location or Date key is present but holds no value is
\* rejected as 'Invalid Claim' before any fetch.
C23_NullLocationOrDateRejected ==
    NullLocationOrDate(claim) =>
        /\ calls = <<>>
        /\ pc = "done" => result.validation_status = InvalidClaim

\* extract_claim_details has returned the record of the text of arg
Extracted == pc = "returned" /\ arg.fn = "extract"

\* C24: every claim record produced by extract_claim_details that the engine
\* treats as a drought claim (Event Type equal to 'drought' ignoring case)
\* carries Days >= 7, so an extracted drought claim is never rejected by the
\* engine's minimum-days check, for every text and every time phrase in it.
C24_ExtractedDroughtHasMinimumDays ==
    (Extracted /\ Lower(ret.record.EventType) = "drought") =>
        /\ ret.record.Days >= 7
        /\ DroughtTooShort(Lower(ret.record.EventType), IntV(ret.record.Days)) = "no"

=============================================================================
